---------------------------- MODULE Spec2Model ----------------------------
(***************************************************************************)
(* GeminiNote: the generation pipeline of GeminiNotePlugin (src/main.ts)   *)
(* against a live, user-editable editor document and the vault.            *)
(*                                                                         *)
(* Text is a sequence of one-character strings.  Offsets are 0-based as in *)
(* JavaScript; Substr(s, i, j) is s.substring(i, j).                       *)
(***************************************************************************)
EXTENDS Integers, Sequences, FiniteSets, TLC

VARIABLES
    doc,        \* editor.getValue(): the live document text
    selFrom,    \* offset of editor.getCursor('from')
    selTo,      \* offset of editor.getCursor('to')
    apiKey,     \* this.settings.apiKey
    files,      \* the vault's documents: path -> content
    folders,    \* the vault's folders (paths)
    clipboard,  \* the system clipboard (NoText until written)
    inv,        \* per invocation: position in the pipeline, request, response, history
    svc         \* a GeminiService call on its own: its inputs and its result

vars == <<doc, selFrom, selTo, apiKey, files, folders, clipboard, inv, svc>>

----------------------------------------------------------------------------
(* Bounds of the model *)

\* longest document the user types (the plugin's own write may exceed it)
MaxDoc == 3

\* longest selection the command captures as the anchor
MaxAnchor == 2

\* the invocations of the command
Invs == {1}

\* the characters of the document
Char == {"a", "\n"}

NL == "\n"

\* "no text": an absent value (undefined, null, nothing written yet)
NoText == <<"<none>">>

----------------------------------------------------------------------------
(* JavaScript string primitives *)

Min(a, b) == IF a < b THEN a ELSE b

Max(a, b) == IF a > b THEN a ELSE b

\* s.substring(i, j)
Substr(s, i, j) == SubSeq(s, i + 1, j)

\* t occurs in s at offset i
OccursAt(s, t, i) == i + Len(t) <= Len(s) /\ Substr(s, i, i + Len(t)) = t

\* s.indexOf(t)
IndexOf(s, t) ==
    IF \E i \in 0..Len(s) : OccursAt(s, t, i)
    THEN CHOOSE i \in 0..Len(s) :
            OccursAt(s, t, i) /\ \A j \in 0..(i - 1) : ~OccursAt(s, t, j)
    ELSE -1

\* s.lastIndexOf(t)
LastIndexOf(s, t) ==
    IF \E i \in 0..Len(s) : OccursAt(s, t, i)
    THEN CHOOSE i \in 0..Len(s) :
            OccursAt(s, t, i) /\ \A j \in (i + 1)..Len(s) : ~OccursAt(s, t, j)
    ELSE -1

\* s.split('\n')
RECURSIVE Split(_)
Split(s) ==
    IF \E i \in 1..Len(s) : s[i] = NL
    THEN LET i == CHOOSE k \in 1..Len(s) : s[k] = NL /\ \A j \in 1..(k - 1) : s[j] # NL
         IN  <<SubSeq(s, 1, i - 1)>> \o Split(SubSeq(s, i + 1, Len(s)))
    ELSE <<s>>

\* all texts over alphabet A of length lo..hi
Texts(A, lo, hi) == UNION {[1..n -> A] : n \in lo..hi}

\* the characters \\s matches and trim() removes
WhiteSpace == {" ", "\n", "\t"}

\* s.trim()
RECURSIVE Trim(_)
Trim(s) ==
    IF s = <<>> THEN s
    ELSE IF s[1] \in WhiteSpace THEN Trim(Tail(s))
    ELSE IF s[Len(s)] \in WhiteSpace THEN Trim(SubSeq(s, 1, Len(s) - 1))
    ELSE s


----------------------------------------------------------------------------
(* The editor (Obsidian's Editor over the live document) *)

\* editor.getSelection()
GetSelection(d, f, t) == Substr(d, f, t)

\* the offset of position {line, ch} in d (positions are clipped to the text)
RECURSIVE LineStart(_, _)
LineStart(ls, line) ==
    IF line = 0 THEN 0 ELSE LineStart(ls, line - 1) + Len(ls[line]) + 1

PosToOffset(d, line, ch) ==
    LET ls == Split(d)
    IN  IF line < 0 THEN 0
        ELSE IF line > Len(ls) - 1 THEN Len(d)
        ELSE LineStart(ls, line) + Min(Max(ch, 0), Len(ls[line + 1]))

\* editor.getRange(from, to)
GetRange(d, line, ch, endLine, endCh) ==
    Substr(d, PosToOffset(d, line, ch), PosToOffset(d, endLine, endCh))

\* editor.getCursor(): the line and the ch of offset
CursorLine(d, offset) == Len(Split(Substr(d, 0, offset))) - 1

\* the lines and the characters of context the request takes on each side
ContextLines == 20

ContextChars == 1000

\* editor.getRange({line: Math.max(0, cursorFrom.line - 20), ch: 0},
\*                 cursorFrom).slice(-1000)
ContextBefore(d, cursorFrom) ==
    LET range == Substr(d, PosToOffset(d, Max(0, CursorLine(d, cursorFrom) - ContextLines), 0),
                        cursorFrom)
    IN  SubSeq(range, Max(1, Len(range) - ContextChars + 1), Len(range))

\* editor.getRange(cursorTo, {line: Math.min(lastLine, cursorTo.line + 20),
\*                            ch: 0}).slice(0, 1000), lastLine = lineCount()
ContextAfter(d, cursorTo) ==
    LET range == Substr(d, cursorTo,
                        PosToOffset(d, Min(Len(Split(d)),
                                           CursorLine(d, cursorTo) + ContextLines), 0))
    IN  SubSeq(range, 1, Min(Len(range), ContextChars))

\* the text after editor.replaceSelection(text) with [f, t) selected
ReplaceRange(d, f, t, text) == Substr(d, 0, f) \o text \o Substr(d, t, Len(d))

----------------------------------------------------------------------------
(* Requests, responses and the vault *)

OutputActions == {"create_note", "replace_selection", "insert_after"}

\* request.saveLocation as typed in the modal ("" = the source note's folder)
SaveLocations == {<<>>, <<"F">>}

\* the source note P.md lies in the vault's root folder
ParentFolderPath == <<"/">>

ParentPath == <<"P", ".md">>

ParentBasename == <<"P">>

FallbackTitle == <<"Untitled Gemini Note">>

NoResp == [title |-> NoText, content |-> NoText, anchorLabel |-> NoText, isFallback |-> FALSE]

----------------------------------------------------------------------------
(* GeminiService.parseResponse                                             *)
(*                                                                         *)
(* A model output is a sequence of tokens.  Tokens are adjacent characters *)
(* of the text: white space is a token of its own.  Fence is the three     *)
(* backquotes of a code fence, "json", "x", "a" and "null" are words (\w+), *)
(* "{" and "}" are braces and a member token is one "key": value member of *)
(* an object with its comma.                                               *)

Fence == "<fence>"

WordToks == {"json", "x", "a", "null"}

MemberToks == {"title:T", "title:T?", "title:", "title:5",
               "content:ax", "content:", "label:L", "label: "}

\* a value that is not of type string
NotAString == <<"<number>">>

\* JSON.parse("null")
JsonNull == [title |-> NoText, content |-> NoText, anchorLabel |-> NoText, null |-> TRUE]

MemberKey(m) ==
    CASE m \in {"title:T", "title:T?", "title:", "title:5"} -> "title"
      [] m \in {"content:ax", "content:"} -> "content"
      [] OTHER -> "anchorLabel"

MemberValue(m) ==
    CASE m = "title:T" -> <<"T">>
      [] m = "title:T?" -> <<"T", "?">>
      [] m = "title:" -> <<>>
      [] m = "title:5" -> NotAString
      [] m = "content:ax" -> <<"a", "x">>
      [] m = "content:" -> <<>>
      [] m = "label: " -> <<" ">>
      [] OTHER -> <<"L">>

NotWhiteSpace(c) == c \notin WhiteSpace

\* obj[key] of the object with members ms: the last member of that key, or
\* undefined
Field(ms, key) ==
    LET ks == {k \in 1..Len(ms) : MemberKey(ms[k]) = key}
    IN  IF ks = {} THEN NoText
        ELSE MemberValue(ms[CHOOSE k \in ks : \A j \in ks : j <= k])

\* JSON.parse(text): ok is FALSE where it throws a SyntaxError
JsonParse(text) ==
    LET t == SelectSeq(text, NotWhiteSpace)
    IN  IF t = <<"null">>
        THEN [ok |-> TRUE, value |-> JsonNull]
        ELSE IF /\ Len(t) >= 2
                /\ t[1] = "{"
                /\ t[Len(t)] = "}"
                /\ \A k \in 2..(Len(t) - 1) : t[k] \in MemberToks
        THEN LET ms == SubSeq(t, 2, Len(t) - 1)
             IN  [ok |-> TRUE,
                  value |-> [title |-> Field(ms, "title"),
                             content |-> Field(ms, "content"),
                             anchorLabel |-> Field(ms, "anchorLabel"),
                             null |-> FALSE]]
        ELSE [ok |-> FALSE, value |-> JsonNull]

\* typeof v === 'string'
IsString(v) == v \notin {NoText, NotAString}

\* IsValidResponse that also requires title and content to be non-blank
IsValidResponseNonEmpty(obj) ==
    /\ ~obj.null
    /\ IsString(obj.title) /\ Trim(obj.title) # <<>>
    /\ IsString(obj.content) /\ Trim(obj.content) # <<>>

\* isValidResponse(obj)
IsValidResponse(obj) ==
    /\ ~obj.null
    /\ IsString(obj.title)
    /\ IsString(obj.content)

\* the first position from k on that does not hold a token of S
RECURSIVE SkipToks(_, _, _)
SkipToks(text, k, S) ==
    IF k <= Len(text) /\ text[k] \in S THEN SkipToks(text, k + 1, S) ELSE k

\* text.match(/^```(?:\w+)?\s*([\s\S]*?)\s*```$/i) when anyTag, and
\* text.match(/^```(?:json)?\s*([\s\S]*?)\s*```$/i) otherwise: the group
CodeBlockMatch(text, anyTag) ==
    LET n == Len(text)
    IN  IF n < 2 \/ text[1] # Fence \/ text[n] # Fence
        THEN [matched |-> FALSE, group |-> <<>>]
        ELSE LET body  == SubSeq(text, 1, n - 1)
                 tagged == IF anyTag THEN SkipToks(body, 2, WordToks)
                           ELSE IF n > 2 /\ text[2] = "json" THEN 3 ELSE 2
                 g     == SkipToks(body, tagged, WhiteSpace)
                 rest  == {k \in g..(n - 1) : text[k] \notin WhiteSpace}
                 e     == IF rest = {} THEN g - 1
                          ELSE CHOOSE k \in rest : \A j \in rest : j <= k
             IN  [matched |-> TRUE, group |-> SubSeq(text, g, e)]

\* the response of the parsed object
ParsedResponse(obj) ==
    [title |-> obj.title, content |-> obj.content,
     anchorLabel |-> obj.anchorLabel, isFallback |-> FALSE]

\* FallbackResponse holding the trimmed text
FallbackResponseTrimmed(rawResponse) ==
    [title |-> FallbackTitle, content |-> Trim(rawResponse),
     anchorLabel |-> NoText, isFallback |-> TRUE]

\* the raw text fallback
FallbackResponse(rawResponse) ==
    [title |-> FallbackTitle, content |-> rawResponse,
     anchorLabel |-> NoText, isFallback |-> TRUE]

\* JsonSubstring without the closing brace
JsonSubstringExclusive(rawResponse, firstBrace, lastBrace) ==
    Substr(rawResponse, firstBrace, lastBrace)

\* rawResponse.substring(firstBrace, lastBrace + 1)
JsonSubstring(rawResponse, firstBrace, lastBrace) ==
    Substr(rawResponse, firstBrace, lastBrace + 1)

\* the first tier of parseResponse: the trimmed, fence-stripped text parsed
\* and validated
DirectParse(rawResponse) ==
    LET textToParse == Trim(rawResponse)
        match       == CodeBlockMatch(textToParse, FALSE)
        cleanJson   == IF match.matched THEN Trim(match.group) ELSE textToParse
        parsed      == JsonParse(cleanJson)
    IN  [valid |-> parsed.ok /\ IsValidResponse(parsed.value), value |-> parsed.value]

\* the second tier: the text from the first "{" to the last "}"
BraceParse(rawResponse) ==
    LET firstBrace == IndexOf(rawResponse, <<"{">>)
        lastBrace  == LastIndexOf(rawResponse, <<"}">>)
    IN  IF firstBrace # -1 /\ lastBrace # -1 /\ lastBrace > firstBrace
        THEN LET parsed == JsonParse(JsonSubstring(rawResponse, firstBrace, lastBrace))
             IN  [valid |-> parsed.ok /\ IsValidResponse(parsed.value),
                  value |-> parsed.value]
        ELSE [valid |-> FALSE, value |-> JsonNull]

\* InPlaceContent without the fence handling and without trimming
InPlaceContentVerbatim(rawResponse) == rawResponse

\* the content parseResponse(rawResponse, false) returns
InPlaceContent(rawResponse) ==
    LET textToParse == Trim(rawResponse)
        match       == CodeBlockMatch(textToParse, TRUE)
    IN  IF match.matched THEN Trim(match.group) ELSE textToParse

\* parseResponse(rawResponse, expectJson)
ParseResponse(rawResponse, expectJson) ==
    IF ~expectJson
    THEN [title |-> <<>>, content |-> InPlaceContent(rawResponse),
          anchorLabel |-> NoText, isFallback |-> FALSE]
    ELSE LET direct == DirectParse(rawResponse)
             brace  == BraceParse(rawResponse)
         IN  IF direct.valid THEN ParsedResponse(direct.value)
             ELSE IF brace.valid THEN ParsedResponse(brace.value)
             ELSE FallbackResponse(rawResponse)

\* the model outputs the pipeline receives
ModelOutputs(action) ==
    IF action = "create_note"
    THEN {<<"{", t, "content:ax", "}">> : t \in {"title:T", "title:T?"}}
         \cup {<<"{", t, "content:ax", "label:L", "}">> : t \in {"title:T", "title:T?"}}
         \cup {<<"{", "title:T", "content:ax", "label: ", "}">>}
         \cup {<<"a", "x">>}
    ELSE {<<"a", "x">>, <<Fence, Fence>>}

----------------------------------------------------------------------------
(* The vault *)

\* content of a document that exists before any invocation
OldContent == <<"old">>

\* the vault before any invocation: empty, or holding T.md, the folder F and F/T.md
InitialVaults ==
    {[files |-> <<>>, folders |-> {}],
     [files |-> [p \in {<<"T", ".md">>, <<"F", "/", "T", ".md">>} |-> OldContent],
      folders |-> {<<"F">>}]}

IdleInv ==
    [pc            |-> "idle",
     selectedText  |-> NoText,     \* request.selectedText
     outputAction  |-> "none",     \* request.outputAction
     saveLocation  |-> <<>>,       \* request.saveLocation
     snapshotText  |-> NoText,     \* runGeneration's snapshotText
     response      |-> NoResp,
     route         |-> "none",     \* "safe": safeToReplace, "divert": !safeToReplace
     progress      |-> FALSE,      \* the "Generating response" notice is visible
     notices       |-> {},         \* the other notices shown
     targetFolder  |-> NoText,     \* createNoteFile's targetFolder
     targetPath    |-> NoText,     \* createNoteFile's targetPath
     apiHost       |-> NoText,     \* the apiHost of the service object, while the
                                   \* call is in flight
     \* history of the invocation
     captured      |-> NoText,     \* editor.getSelection() when the command ran
     reconcile     |-> "none",     \* what the response met: "equal", "unique", "ambiguous"
     scanned       |-> FALSE,      \* the uniqueness scan (indexOf, lastIndexOf) ran
     relocText     |-> NoText,     \* the text selected by the relocating setSelection
     nSetSel       |-> 0,          \* editor.setSelection calls
     nReplace      |-> 0,          \* editor.replaceSelection calls
     wSel          |-> NoText,     \* the selected text the write replaced
     wText         |-> NoText,     \* the text the write put there
     existed       |-> FALSE,      \* the collision check found a document
     threw         |-> FALSE,      \* vault.createFolder or vault.create rejected
     created       |-> NoText,     \* path of the document vault.create made
     clipWrites    |-> 0,          \* navigator.clipboard.writeText calls
     opened        |-> FALSE,      \* the configuration modal was opened
     serviceCalls  |-> 0,          \* service.generateNote calls
     attempts      |-> 0,          \* transport calls (generateWithSdk, generateWithCustomHost)
     outcome       |-> "none"]     \* what the provider did: "text", "empty",
                                   \* "network_error", "http_error"

\* an invocation is suspended: the user can act
\* settings.apiHost: not set, blank, a host
ApiHosts == {<<>>, <<" ">>, <<"h">>}

\* the service call of ServiceSpec before its inputs are drawn
NoCall == [kind |-> "none"]

Suspended(i) == inv[i].pc \in {"modal", "reading", "awaiting", "createFolder", "create"}

Selections(d) == {ft \in (0..Len(d)) \X (0..Len(d)) : ft[1] <= ft[2]}

Init ==
    /\ doc \in Texts(Char, 1, MaxDoc)
    /\ \E ft \in Selections(doc) :
          ft[2] - ft[1] <= MaxAnchor /\ selFrom = ft[1] /\ selTo = ft[2]
    /\ apiKey \in {<<>>, <<"k">>}
    /\ \E v \in InitialVaults : files = v.files /\ folders = v.folders
    /\ clipboard = NoText
    /\ inv = [i \in Invs |-> IdleInv]
    /\ svc = NoCall

----------------------------------------------------------------------------
(* The user, while an invocation is suspended *)

UserSelect(f, t) ==
    /\ \E i \in DOMAIN inv : Suspended(i)
    /\ <<f, t>> \in Selections(doc)
    /\ <<f, t>> # <<selFrom, selTo>>
    /\ selFrom' = f /\ selTo' = t
    /\ UNCHANGED <<doc, apiKey, files, folders, clipboard, inv, svc>>

\* typing text over the selection (text = "" deletes it)
UserType(text) ==
    /\ \E i \in DOMAIN inv : Suspended(i)
    /\ text # <<>> \/ selFrom < selTo
    /\ Len(doc) - (selTo - selFrom) + Len(text) <= MaxDoc
    /\ doc' = ReplaceRange(doc, selFrom, selTo, text)
    /\ selFrom' = selFrom + Len(text)
    /\ selTo' = selFrom + Len(text)
    /\ UNCHANGED <<apiKey, files, folders, clipboard, inv, svc>>

----------------------------------------------------------------------------
(* handleGenerateCommand *)

\* the command's editorCallback: capture the selection, open the modal
Command(i) ==
    /\ inv[i].pc = "idle"
    /\ LET selectedText == GetSelection(doc, selFrom, selTo)
       IN  IF selectedText = <<>>
           THEN inv' = [inv EXCEPT ![i].pc = "ended", ![i].notices = @ \cup {"no_selection"}]
           ELSE inv' = [inv EXCEPT ![i].pc = "modal",
                                   ![i].opened = TRUE,
                                   ![i].selectedText = selectedText,
                                   ![i].captured = selectedText]
    /\ UNCHANGED <<doc, selFrom, selTo, apiKey, files, folders, clipboard, svc>>

\* the modal's submit: the callback starts and awaits its vault reads
Submit(i) ==
    /\ inv[i].pc = "modal"
    /\ inv' = [inv EXCEPT ![i].pc = "reading"]
    /\ UNCHANGED <<doc, selFrom, selTo, apiKey, files, folders, clipboard, svc>>

\* RequestSelectedText reading the selection again when the request is built
RequestSelectedTextReread(i) == GetSelection(doc, selFrom, selTo)

\* request.selectedText as the callback builds it: the closure's selectedText
RequestSelectedText(i) == inv[i].selectedText

\* the shared state an invocation's step reads and writes
Here == [doc |-> doc, selFrom |-> selFrom, selTo |-> selTo,
         files |-> files, folders |-> folders, clipboard |-> clipboard]

\* Caught without notice.hide(): the progress notice stays
CaughtNoticeLeft(s, me) ==
    [s  |-> s,
     me |-> [me EXCEPT !.pc = "ended", !.notices = @ \cup {"failed"}]]

\* the catch block of runGeneration
Caught(s, me) ==
    [s  |-> s,
     me |-> [me EXCEPT !.pc = "ended", !.progress = FALSE,
                       !.notices = @ \cup {"failed"}]]

\* ApiKeyMissing that never holds: the precondition check left out
ApiKeyMissingNever(key) == FALSE

\* !this.settings.apiKey, !this.apiKey
ApiKeyMissing(key) == key = <<>>

\* UsesCustomHost without the trim
UsesCustomHostNoTrim(host) == host # <<>>

\* this.apiHost && this.apiHost.trim() !== ''
UsesCustomHost(host) == host # <<>> /\ Trim(host) # <<>>

\* what the provider can do with a call
Outcomes == {"text", "empty", "network_error", "http_error"}

\* generateWithSdk(prompt): the text returned, or threw
GenerateWithSdk(outcome, text) ==
    IF outcome \in {"network_error", "http_error"}
    THEN [threw |-> TRUE, text |-> NoText]
    ELSE [threw |-> FALSE, text |-> IF outcome = "text" THEN text ELSE <<>>]

\* generateWithCustomHost(prompt): the text returned, or threw
GenerateWithCustomHost(outcome, text) ==
    IF outcome \in {"network_error", "http_error"}
    THEN [threw |-> TRUE, text |-> NoText]
    ELSE IF outcome = "empty" \/ text = <<>>
    THEN [threw |-> TRUE, text |-> NoText]
    ELSE [threw |-> FALSE, text |-> text]

\* service.generateNote(request) up to its await: the one transport call
GenerateNote(me, key) ==
    LET called == [me EXCEPT !.serviceCalls = @ + 1]
    IN  IF key = <<>>
        THEN Caught(Here, [called EXCEPT !.apiHost = NoText]).me
        ELSE [called EXCEPT !.pc = "awaiting", !.attempts = @ + 1]

\* the request the callback built, kept where requests are followed
\* (RequestSpec); elsewhere nothing is kept of it
Built(call, request) ==
    IF call.kind = "request" THEN [call EXCEPT !.pc = "built", !.request = request]
    ELSE call

\* the reads are done: build the request from the modal's result (action,
\* saveLocation) and call runGeneration, which runs up to its await
StartGeneration(i, action, saveLocation, host) ==
    /\ inv[i].pc = "reading"
    /\ LET req == [inv[i] EXCEPT !.selectedText = RequestSelectedText(i),
                                 !.outputAction = action,
                                 !.saveLocation = saveLocation]
       IN  IF ApiKeyMissing(apiKey)
           THEN inv' = [inv EXCEPT ![i] = [req EXCEPT !.pc = "ended",
                                                      !.notices = @ \cup {"no_key"}]]
           ELSE inv' = [inv EXCEPT ![i] =
                           GenerateNote([req EXCEPT !.snapshotText = req.selectedText,
                                                    !.apiHost = host,
                                                    !.progress = TRUE], apiKey)]
    /\ svc' = Built(svc, [selectedText  |-> RequestSelectedText(i),
                          contextBefore |-> ContextBefore(doc, selFrom),
                          contextAfter  |-> ContextAfter(doc, selTo),
                          outputAction  |-> action])
    /\ UNCHANGED <<doc, selFrom, selTo, apiKey, files, folders, clipboard>>

----------------------------------------------------------------------------
(* runGeneration: reconciliation of the anchor with the live document *)

\* SelectionMatches with the equality test left out: the scan always runs
SelectionMatchesNever(currentSelection, snapshotText) == FALSE

\* currentSelection === snapshotText
SelectionMatches(currentSelection, snapshotText) == currentSelection = snapshotText

\* firstIndex !== -1 && firstIndex === lastIndex
UniqueMatch(firstIndex, lastIndex) == firstIndex # -1 /\ firstIndex = lastIndex

\* RelocSpan with ch taken from the whole prefix instead of its last line
RelocSpanWholePrefix(docContent, index, n) ==
    LET lines    == Split(Substr(docContent, 0, index))
        endLines == Split(Substr(docContent, 0, index + n))
    IN  <<Len(lines) - 1, index, Len(endLines) - 1, index + n>>

\* the {line, ch}, {line: endLine, ch: endCh} span of n characters at offset
\* index of docContent, computed from the split prefixes
RelocSpan(docContent, index, n) ==
    LET lines    == Split(Substr(docContent, 0, index))
        endLines == Split(Substr(docContent, 0, index + n))
    IN  <<Len(lines) - 1, Len(lines[Len(lines)]),
          Len(endLines) - 1, Len(endLines[Len(endLines)])>>

\* the number of offsets of d at which t occurs (overlapping ones included)
Occurrences(d, t) == Cardinality({k \in 0..Len(d) : OccursAt(d, t, k)})

\* Reconcile that trusts the selection it finds: always safe, no relocation
ReconcileUnchecked(d, f, t, snapshotText) ==
    [safeToReplace |-> TRUE, scanned |-> FALSE, relocated |-> FALSE, from |-> f, to |-> t]

\* the reconcile block of runGeneration on document d with [f, t) selected:
\* the decision, and the selection that editor.setSelection leaves
Reconcile(d, f, t, snapshotText) ==
    LET currentSelection == GetSelection(d, f, t)
    IN  IF SelectionMatches(currentSelection, snapshotText)
        THEN [safeToReplace |-> TRUE, scanned |-> FALSE, relocated |-> FALSE,
              from |-> f, to |-> t]
        ELSE LET firstIndex == IndexOf(d, snapshotText)
                 lastIndex  == LastIndexOf(d, snapshotText)
             IN  IF UniqueMatch(firstIndex, lastIndex)
                 THEN LET sp == RelocSpan(d, firstIndex, Len(snapshotText))
                          a  == PosToOffset(d, sp[1], sp[2])
                          h  == PosToOffset(d, sp[3], sp[4])
                      IN  [safeToReplace |-> TRUE, scanned |-> TRUE, relocated |-> TRUE,
                           from |-> Min(a, h), to |-> Max(a, h)]
                 ELSE [safeToReplace |-> FALSE, scanned |-> TRUE, relocated |-> FALSE,
                       from |-> f, to |-> t]

\* what the response met, in the terms of the safe-apply protocol
Met(d, f, t, anchor) ==
    IF GetSelection(d, f, t) = anchor THEN "equal"
    ELSE IF Occurrences(d, anchor) = 1 THEN "unique"
    ELSE "ambiguous"

----------------------------------------------------------------------------
(* createNoteFile and handleCreateNoteAction *)

\* the characters title.replace(/[\\/:*?"<>|]/g, '') removes
IllegalChars == {"\\", "/", ":", "*", "?", "\"", "<", ">", "|"}

NotIllegal(c) == c \notin IllegalChars

\* response.title.replace(/[\\/:*?"<>|]/g, '').trim()
SafeTitle(title) == Trim(SelectSeq(title, NotIllegal))

\* obsidian's normalizePath: no repeated, leading or trailing slash
RECURSIVE NormalizePath(_)
NormalizePath(p) ==
    IF p = <<>> THEN p
    ELSE IF p[1] = "/" THEN NormalizePath(Tail(p))
    ELSE IF p[Len(p)] = "/" THEN NormalizePath(SubSeq(p, 1, Len(p) - 1))
    ELSE IF \E k \in 1..(Len(p) - 1) : p[k] = "/" /\ p[k + 1] = "/"
    THEN LET k == CHOOSE j \in 1..(Len(p) - 1) : p[j] = "/" /\ p[j + 1] = "/"
         IN  NormalizePath(SubSeq(p, 1, k) \o SubSeq(p, k + 2, Len(p)))
    ELSE p

\* createNoteFile's targetFolder
TargetFolder(saveLocation) ==
    IF saveLocation # <<>> THEN NormalizePath(saveLocation) ELSE ParentFolderPath

\* createNoteFile's targetPath
TargetPath(targetFolder, title) ==
    NormalizePath(targetFolder \o <<"/">> \o SafeTitle(title) \o <<".md">>)

\* Exists that finds nothing: the collision check left out
ExistsNever(s, path) == FALSE

\* this.app.vault.getAbstractFileByPath(path) finds a document or a folder
Exists(s, path) == path \in DOMAIN s.files \/ path \in s.folders

\* the backlink line createNoteFile puts before the generated body
ParentLink ==
    <<"Generated from: [[">> \o ParentPath \o <<"|">> \o ParentBasename
        \o <<"]]", "\n", "\n", "---", "\n", "\n">>

\* FullContent without the backlink line
FullContentNoBacklink(response) == response.content

\* const fullContent = parentLink + response.content
FullContent(response) == ParentLink \o response.content

\* `[[${target}|${label}]]`
LinkText(target, label) == <<"[[">> \o target \o <<"|">> \o label \o <<"]]">>

\* handleCreateNoteAction's linkLabel
LinkLabel(response, selectedText) ==
    IF response.anchorLabel # NoText /\ response.anchorLabel # <<>>
       /\ Trim(response.anchorLabel) # <<>>
    THEN response.anchorLabel
    ELSE selectedText

\* the clipboard text of the diversion path in create_note mode
ClipboardLink(response, snapshotText) ==
    IF response.anchorLabel # NoText /\ response.anchorLabel # <<>>
    THEN LinkText(response.title, response.anchorLabel)
    ELSE LinkText(response.title, snapshotText)

\* editor.replaceSelection(text) by invocation me
ReplaceSelection(s, me, text) ==
    [s  |-> [s EXCEPT !.doc = ReplaceRange(s.doc, s.selFrom, s.selTo, text),
                      !.selFrom = s.selFrom + Len(text),
                      !.selTo = s.selFrom + Len(text)],
     me |-> [me EXCEPT !.nReplace = @ + 1,
                       !.wSel = GetSelection(s.doc, s.selFrom, s.selTo),
                       !.wText = text]]

\* navigator.clipboard.writeText(text) by invocation me
WriteClipboard(s, me, text) ==
    [s  |-> [s EXCEPT !.clipboard = text],
     me |-> [me EXCEPT !.clipWrites = @ + 1]]

\* AfterCreateNoteFile without handleCreateNoteAction's `if (!newFile) return`
AfterCreateNoteFileNoNullCheck(s, me, newFile) ==
    IF me.route = "divert"
    THEN LET w == WriteClipboard(s, me, ClipboardLink(me.response, me.snapshotText))
         IN  [s |-> w.s, me |-> [w.me EXCEPT !.pc = "ended"]]
    ELSE LET w == ReplaceSelection(s, me,
                      LinkText(IF newFile = NoText THEN me.targetPath ELSE newFile,
                               LinkLabel(me.response, me.selectedText)))
         IN  [s |-> w.s, me |-> [w.me EXCEPT !.pc = "ended"]]

\* the caller's code after `await this.createNoteFile(...)` returned newFile
\* (a path, or NoText for null)
AfterCreateNoteFile(s, me, newFile) ==
    IF me.route = "divert"
    THEN \* runGeneration: navigator.clipboard.writeText(clipboardText); return
         LET w == WriteClipboard(s, me, ClipboardLink(me.response, me.snapshotText))
         IN  [s |-> w.s, me |-> [w.me EXCEPT !.pc = "ended"]]
    ELSE \* handleCreateNoteAction
         IF newFile = NoText
         THEN [s |-> s, me |-> [me EXCEPT !.pc = "ended"]]
         ELSE LET w == ReplaceSelection(s, me,
                           LinkText(newFile, LinkLabel(me.response, me.selectedText)))
              IN  [s  |-> w.s,
                   me |-> [w.me EXCEPT !.pc = "ended",
                              !.notices = @ \cup {IF me.response.isFallback
                                                  THEN "created_default_title"
                                                  ELSE "created"}]]

\* createNoteFile from the computation of targetPath on, up to vault.create
CreateNoteFileFromPath(s, me) ==
    LET targetPath == TargetPath(me.targetFolder, me.response.title)
    IN  IF Exists(s, targetPath)
        THEN AfterCreateNoteFile(s,
                 [me EXCEPT !.targetPath = targetPath, !.existed = TRUE,
                            !.notices = @ \cup {"already_exists"}],
                 NoText)
        ELSE [s |-> s, me |-> [me EXCEPT !.targetPath = targetPath, !.pc = "create"]]

\* createNoteFile from its start, up to its first pending vault call
CreateNoteFile(s, me) ==
    LET targetFolder == TargetFolder(me.saveLocation)
        me1 == [me EXCEPT !.targetFolder = targetFolder]
    IN  IF me.saveLocation # <<>> /\ ~Exists(s, targetFolder)
        THEN [s |-> s, me |-> [me1 EXCEPT !.pc = "createFolder"]]
        ELSE CreateNoteFileFromPath(s, me1)

\* InsertAfterText without the anchor in front
InsertAfterTextNoAnchor(snapshotText, content) == <<"\n", "\n">> \o content

\* const newText = snapshotText + "\n\n" + response.content
InsertAfterText(snapshotText, content) == snapshotText \o <<"\n", "\n">> \o content

\* InPlaceClipboardText with the anchor in front, as insert_after writes it
InPlaceClipboardTextWithAnchor(snapshotText, response) ==
    snapshotText \o <<"\n", "\n">> \o response.content

\* clipboardText of the diversion path in the in-place modes
InPlaceClipboardText(snapshotText, response) == response.content

\* the invocation after the reconcile block with decision rc: the response
\* is there, the progress notice is hidden
Reconciled(s, me0, response, rc) ==
    [me0 EXCEPT
       !.response  = response,
       !.progress  = FALSE,
       !.route     = IF rc.safeToReplace THEN "safe" ELSE "divert",
       !.reconcile = Met(s.doc, s.selFrom, s.selTo, me0.selectedText),
       !.scanned   = rc.scanned,
       !.nSetSel   = IF rc.relocated THEN @ + 1 ELSE @,
       !.relocText = IF rc.relocated THEN GetSelection(s.doc, rc.from, rc.to) ELSE @]

\* IsCreateNote holding for every action: the mode is not looked at
IsCreateNoteAlways(outputAction) == TRUE

\* request.outputAction === 'create_note'
IsCreateNote(outputAction) == outputAction = "create_note"

\* runGeneration from `if (!safeToReplace)` on: the diversion, or the action
ApplyResponse(s1, me, response, safeToReplace) ==
    IF ~safeToReplace
    THEN LET warned == [me EXCEPT !.notices = @ \cup {"selection_changed"}]
         IN  IF IsCreateNote(me.outputAction)
             THEN CreateNoteFile(s1, warned)
             ELSE LET w == WriteClipboard(s1, warned,
                               InPlaceClipboardText(me.snapshotText, response))
                  IN  [s |-> w.s, me |-> [w.me EXCEPT !.pc = "ended"]]
    ELSE IF IsCreateNote(me.outputAction)
         THEN CreateNoteFile(s1, me)
         ELSE IF me.outputAction = "replace_selection"
         THEN LET w == ReplaceSelection(s1, me, response.content)
              IN  [s  |-> w.s,
                   me |-> [w.me EXCEPT !.pc = "ended", !.notices = @ \cup {"replaced"}]]
         ELSE LET w == ReplaceSelection(s1, me,
                           InsertAfterText(me.snapshotText, response.content))
              IN  [s  |-> w.s,
                   me |-> [w.me EXCEPT !.pc = "ended", !.notices = @ \cup {"inserted"}]]

\* runGeneration after the reconcile block decided rc
AfterReconcile(s, me0, response, rc) ==
    ApplyResponse([s EXCEPT !.selFrom = rc.from, !.selTo = rc.to],
                  Reconciled(s, me0, response, rc), response, rc.safeToReplace)

\* runGeneration after `await service.generateNote(request)` resolved to response
AfterResponse(s, me0, response) ==
    AfterReconcile(s, me0, response,
                   Reconcile(s.doc, s.selFrom, s.selTo, me0.snapshotText))

\* the step of invocation i leaves the shared state r.s and the invocation r.me
Becomes(i, result) ==
    \E r \in {result} :
        /\ doc' = r.s.doc
        /\ selFrom' = r.s.selFrom
        /\ selTo' = r.s.selTo
        /\ files' = r.s.files
        /\ folders' = r.s.folders
        /\ clipboard' = r.s.clipboard
        /\ inv' = [inv EXCEPT ![i] = r.me]
        /\ UNCHANGED <<apiKey, svc>>

\* the provider answers with the text raw: generateNote parses it and
\* runGeneration goes on with the response
Respond(i, raw) ==
    /\ inv[i].pc = "awaiting"
    /\ raw \in ModelOutputs(inv[i].outputAction)
    /\ \E response \in {ParseResponse(raw, inv[i].outputAction = "create_note")} :
          Becomes(i, AfterResponse(Here,
                                   [inv[i] EXCEPT !.outcome = "text", !.apiHost = NoText],
                                   response))

\* the call fails: the network, or an HTTP error status
TransportFails(i, kind) ==
    /\ inv[i].pc = "awaiting"
    /\ Becomes(i, Caught(Here, [inv[i] EXCEPT !.outcome = kind, !.apiHost = NoText]))

\* the provider's answer holds no text: generateWithCustomHost throws,
\* generateWithSdk returns "" and generateNote parses it
EmptyResponse(i) ==
    /\ inv[i].pc = "awaiting"
    /\ LET me == [inv[i] EXCEPT !.outcome = "empty", !.apiHost = NoText]
           responseText == IF UsesCustomHost(inv[i].apiHost)
                           THEN GenerateWithCustomHost("empty", <<>>)
                           ELSE GenerateWithSdk("empty", <<>>)
       IN  IF responseText.threw
           THEN Becomes(i, Caught(Here, me))
           ELSE \E response \in {ParseResponse(responseText.text,
                                                me.outputAction = "create_note")} :
                   Becomes(i, AfterResponse(Here, me, response))

\* vault.createFolder(targetFolder) resolves
FolderCreated(i) ==
    /\ inv[i].pc = "createFolder"
    /\ Becomes(i, CreateNoteFileFromPath(
                      [Here EXCEPT !.folders = @ \cup {inv[i].targetFolder}], inv[i]))

\* vault.createFolder(targetFolder) rejects
FolderFails(i) ==
    /\ inv[i].pc = "createFolder"
    /\ Becomes(i, Caught(Here, [inv[i] EXCEPT !.threw = TRUE]))

\* vault.create(targetPath, fullContent) resolves to the new file
FileCreated(i) ==
    /\ inv[i].pc = "create"
    /\ inv[i].targetPath \notin DOMAIN files
    /\ LET path == inv[i].targetPath
       IN  Becomes(i, AfterCreateNoteFile(
                          [Here EXCEPT !.files = (path :> FullContent(inv[i].response)) @@ @],
                          [inv[i] EXCEPT !.created = path], path))

\* vault.create(targetPath, fullContent) rejects
FileFails(i) ==
    /\ inv[i].pc = "create"
    /\ Becomes(i, Caught(Here, [inv[i] EXCEPT !.threw = TRUE]))

Next ==
    \/ \E ft \in (0..MaxDoc) \X (0..MaxDoc) : UserSelect(ft[1], ft[2])
    \/ \E text \in Texts(Char, 0, 1) : UserType(text)
    \/ \E i \in DOMAIN inv : Command(i)
    \/ \E i \in DOMAIN inv : Submit(i)
    \/ \E i \in DOMAIN inv, a \in OutputActions, s \in SaveLocations, h \in ApiHosts :
          StartGeneration(i, a, s, h)
    \/ \E i \in DOMAIN inv,
          raw \in ModelOutputs("create_note") \cup ModelOutputs("insert_after") :
             Respond(i, raw)
    \/ \E i \in DOMAIN inv, k \in {"network_error", "http_error"} : TransportFails(i, k)
    \/ \E i \in DOMAIN inv : EmptyResponse(i)
    \/ \E i \in DOMAIN inv : FolderCreated(i)
    \/ \E i \in DOMAIN inv : FolderFails(i)
    \/ \E i \in DOMAIN inv : FileCreated(i)
    \/ \E i \in DOMAIN inv : FileFails(i)

Spec == Init /\ [][Next]_vars

\* the pending transport call of invocation i settles
TransportSettles(i) ==
    \/ \E raw \in ModelOutputs("create_note") \cup ModelOutputs("insert_after") :
          Respond(i, raw)
    \/ \E k \in {"network_error", "http_error"} : TransportFails(i, k)
    \/ EmptyResponse(i)

\* the pending vault call of invocation i settles
VaultSettles(i) ==
    FolderCreated(i) \/ FolderFails(i) \/ FileCreated(i) \/ FileFails(i)

\* the document "a" or "aa" with its first "a" selected
LiveInit ==
    /\ doc \in {<<"a">>, <<"a", "a">>}
    /\ selFrom = 0 /\ selTo = 1
    /\ apiKey \in {<<>>, <<"k">>}
    /\ \E v \in InitialVaults : files = v.files /\ folders = v.folders
    /\ clipboard = NoText
    /\ inv = [i \in Invs |-> IdleInv]
    /\ svc = NoCall

\* the steps of the invocation; the user moves the selection or deletes it
LiveNext ==
    \/ \E ft \in (0..2) \X (0..2) : UserSelect(ft[1], ft[2])
    \/ UserType(<<>>)
    \/ \E i \in DOMAIN inv : Command(i)
    \/ \E i \in DOMAIN inv : Submit(i)
    \/ \E i \in DOMAIN inv, a \in OutputActions, s \in SaveLocations, h \in ApiHosts :
          StartGeneration(i, a, s, h)
    \/ \E i \in DOMAIN inv : TransportSettles(i)
    \/ \E i \in DOMAIN inv : VaultSettles(i)

\* no awaited promise stays pending for ever: the transport call returns or
\* fails (at the latest by the platform's timeout), and so do
\* vault.createFolder and vault.create.  Weak fairness of the failing step
\* says no more than that: every step that settles the call disables it.
LiveSpec ==
    /\ LiveInit
    /\ [][LiveNext]_vars
    /\ \A i \in Invs :
          /\ WF_vars(TransportFails(i, "network_error"))
          /\ WF_vars(FolderFails(i))
          /\ WF_vars(FileFails(i))

----------------------------------------------------------------------------
(* Two invocations of the command, overlapping in every way *)

Invs2 == {1, 2}

\* the document "a" with "a" selected, the API key set, two idle invocations
OverlapInit ==
    /\ doc = <<"a">>
    /\ selFrom = 0 /\ selTo = 1
    /\ apiKey = <<"k">>
    /\ \E v \in InitialVaults : files = v.files /\ folders = v.folders
    /\ clipboard = NoText
    /\ inv = [i \in Invs2 |-> IdleInv]
    /\ svc = NoCall

\* the steps of the invocations; the user only moves the selection
OverlapNext ==
    \/ \E ft \in (0..1) \X (0..1) : UserSelect(ft[1], ft[2])
    \/ \E i \in DOMAIN inv : Command(i)
    \/ \E i \in DOMAIN inv : Submit(i)
    \/ \E i \in DOMAIN inv, a \in OutputActions, s \in SaveLocations :
          StartGeneration(i, a, s, <<>>)
    \/ \E i \in DOMAIN inv,
          raw \in ModelOutputs("create_note") \cup ModelOutputs("insert_after") :
             Respond(i, raw)
    \/ \E i \in DOMAIN inv : TransportFails(i, "network_error")
    \/ \E i \in DOMAIN inv : EmptyResponse(i)
    \/ \E i \in DOMAIN inv : FolderCreated(i)
    \/ \E i \in DOMAIN inv : FolderFails(i)
    \/ \E i \in DOMAIN inv : FileCreated(i)
    \/ \E i \in DOMAIN inv : FileFails(i)

OverlapSpec == OverlapInit /\ [][OverlapNext]_vars

----------------------------------------------------------------------------
(* handleGenerateCommand on its own: from the command to the request, with *)
(* the request kept                                                        *)

\* no request built yet
NoRequest == [selectedText |-> NoText, contextBefore |-> NoText,
              contextAfter |-> NoText, outputAction |-> "none"]

RequestInit ==
    /\ doc \in Texts(Char, 1, MaxDoc)
    /\ \E ft \in Selections(doc) :
          ft[2] - ft[1] <= MaxAnchor /\ selFrom = ft[1] /\ selTo = ft[2]
    /\ apiKey \in {<<>>, <<"k">>}
    /\ files = <<>> /\ folders = {}
    /\ clipboard = NoText
    /\ inv = [i \in Invs |-> IdleInv]
    /\ svc = [kind |-> "request", pc |-> "none", request |-> NoRequest]

\* the command, the modal and the callback; the user edits while they wait
RequestNext ==
    \/ \E ft \in (0..MaxDoc) \X (0..MaxDoc) : UserSelect(ft[1], ft[2])
    \/ \E text \in Texts(Char, 0, 1) : UserType(text)
    \/ \E i \in DOMAIN inv : Command(i)
    \/ \E i \in DOMAIN inv : Submit(i)
    \/ \E i \in DOMAIN inv, a \in OutputActions, s \in SaveLocations :
          StartGeneration(i, a, s, <<>>)

RequestSpec == RequestInit /\ [][RequestNext]_vars

----------------------------------------------------------------------------
(* GeminiService on its own: generateNote's prompt, its transport call and *)
(* parseResponse on inputs drawn from bounded sets; and the background     *)
(* reference reads of the modal's submit callback                          *)

\* longest arbitrary model output, in tokens
MaxRaw == 3

Toks == {" ", "\n", "x", "json", "null", Fence, "{", "}"} \cup MemberToks

\* texts of an object: any two members, or title, content and label
ObjectTexts ==
    {<<"{">> \o ms \o <<"}">> : ms \in Texts(MemberToks, 0, 2)}
    \cup {<<"{", t, c, "label:L", "}">> :
            t \in {"title:T", "title:", "title:5"}, c \in {"content:ax", "content:"}}

\* text without braces put before and after an object
Commentary ==
    {<<>>, <<" ">>, <<"\n">>, <<"x">>, <<"x", " ">>, <<" ", "x">>, <<Fence>>,
     <<Fence, "json">>, <<Fence, "json", "\n">>, <<Fence, "\n">>, <<"\n", Fence>>,
     <<"null">>, <<"json">>}

\* the model outputs parseResponse is applied to: any text, and the objects
\* with text before and after them (object: the object the text was made of)
RawTexts ==
    [rawResponse : Texts(Toks, 0, MaxRaw), object : {NoText}]
    \cup {[rawResponse |-> pre \o o \o post, object |-> o] :
             pre \in Commentary, o \in ObjectTexts, post \in Commentary}

ContextTypes == {"selection_only", "selection_and_full_note"}

\* the requests generateNote builds a prompt from
Requests ==
    [outputAction      : OutputActions,
     contextType       : ContextTypes,
     instructionContent : {<<"i">>},
     selectedText      : {<<"a">>},
     parentNoteContent : {<<"b", "a">>, <<"a", "c">>},
     parentNoteTitle   : {<<"P", ".md">>, <<"Q", ".md">>},
     contextBefore     : {<<"b">>},
     contextAfter      : {<<"c">>},
     backgroundContext : {NoText, <<" ">>, <<"g">>}]

\* the source document around the selected text "a", as the submit callback
\* reads it: the whole note and the windows before and after the selection
Surroundings ==
    {[parentNoteContent |-> <<"b", "a">>, contextBefore |-> <<"b">>, contextAfter |-> <<>>],
     [parentNoteContent |-> <<"a", "c">>, contextBefore |-> <<>>, contextAfter |-> <<"c">>],
     [parentNoteContent |-> <<"b", "a", "c">>, contextBefore |-> <<"b">>,
      contextAfter |-> <<"c">>]}

\* JSON.stringify of one member: left out when the value is undefined
Member(key, value) == IF value = NoText THEN <<>> ELSE <<key>> \o value \o <<",">>

\* request.backgroundContext && request.backgroundContext.trim().length > 0
HasBackground(request) ==
    request.backgroundContext # NoText /\ Trim(request.backgroundContext) # <<>>

\* fullPrompt of generateNote
FullPrompt(request) ==
    IF request.outputAction = "create_note"
    THEN <<"createNoteMetaPrompt">>
         \o (IF HasBackground(request) THEN <<"IMPORTANT: Use backgroundReferences">>
             ELSE <<>>)
         \o <<"Input Data:", "{">>
         \o Member("userInstruction", request.instructionContent)
         \o Member("selectedText", request.selectedText)
         \o Member("parentNoteContent",
                   IF request.contextType = "selection_and_full_note"
                   THEN request.parentNoteContent ELSE NoText)
         \o Member("parentNoteTitle", request.parentNoteTitle)
         \o Member("backgroundReferences",
                   IF HasBackground(request) THEN request.backgroundContext ELSE NoText)
         \o <<"}">>
    ELSE <<"inPlaceMetaPrompt", "USER INSTRUCTION">> \o request.instructionContent
         \o (IF HasBackground(request)
             THEN <<"BACKGROUND REFERENCE MATERIALS">> \o request.backgroundContext
             ELSE <<>>)
         \o <<"EXISTING TEXT BEFORE SELECTION", "...">> \o request.contextBefore
         \o <<"EXISTING TEXT AFTER SELECTION">> \o request.contextAfter \o <<"...">>
         \o <<"USER SELECTED TEXT">> \o request.selectedText

\* most reference files selected in the modal
MaxRefs == 2

\* the vault's documents that can be selected as background references
RefPaths == {<<"A.md">>, <<"B.md">>, <<"C.md">>}

\* what this.app.vault.read(file) gives: it rejects (NoText), or the content
RefReads == {NoText, <<>>, <<"g">>}

\* result.backgroundFiles: the modal keeps the selected files distinct
BackgroundFiles ==
    {fs \in UNION {[1..n -> RefPaths] : n \in 0..MaxRefs} :
        \A j, k \in 1..Len(fs) : j # k => fs[j] # fs[k]}

\* `\n--- REFERENCE FILE: ${file.path} ---\n${content}\n`
ReferenceEntry(path, content) ==
    <<"\n", "--- REFERENCE FILE: ">> \o path \o <<" ---", "\n">> \o content \o <<"\n">>

\* one pass of the loop over result.backgroundFiles: the read of file settled
\* with result read (NoText: it rejected and the catch block logged it)
AppendReference(backgroundContext, path, read) ==
    IF read = NoText THEN backgroundContext
    ELSE backgroundContext \o ReferenceEntry(path, read)

\* the service calls: a transport call, a parse, the prompts of a request
\* and of two requests like it (other: another parent note; around: another
\* text around the selection), or the reads of the background references
ServiceCalls ==
    [kind : {"generate"}, pc : {"called"}, apiHost : ApiHosts, expectJson : BOOLEAN,
     outcome : Outcomes, sdkCalls : {0}, customCalls : {0}, threw : {FALSE},
     parsedRaw : {NoText}, response : {NoResp}]
    \cup {[kind |-> "parse", pc |-> "called", rawResponse |-> t.rawResponse,
           object |-> t.object, expectJson |-> e, response |-> NoResp] :
             t \in RawTexts, e \in BOOLEAN}
    \cup {[kind |-> "prompt", pc |-> "called", request |-> r,
           other |-> [r EXCEPT !.parentNoteContent = c, !.parentNoteTitle = t],
           around |-> [r EXCEPT !.parentNoteContent = s.parentNoteContent,
                                !.contextBefore = s.contextBefore,
                                !.contextAfter = s.contextAfter],
           prompt |-> NoText, otherPrompt |-> NoText, aroundPrompt |-> NoText] :
             r \in Requests, c \in {<<"b", "a">>, <<"a", "c">>},
             t \in {<<"P", ".md">>, <<"Q", ".md">>}, s \in Surroundings}
    \cup [kind : {"background"}, pc : {"called"}, backgroundFiles : BackgroundFiles,
          reads : [RefPaths -> RefReads], nRead : {0}, backgroundContext : {<<>>},
          threw : {FALSE}]

ServiceInit ==
    /\ doc = <<"a">>
    /\ selFrom = 0 /\ selTo = 1
    /\ apiKey = <<"k">>
    /\ files = <<>> /\ folders = {}
    /\ clipboard = NoText
    /\ inv = [i \in Invs |-> IdleInv]
    /\ svc \in ServiceCalls

\* generateNote up to its await: exactly one of the two transports is called
CallTransport ==
    /\ svc.kind = "generate" /\ svc.pc = "called"
    /\ svc' = IF UsesCustomHost(svc.apiHost)
              THEN [svc EXCEPT !.pc = "awaiting", !.customCalls = @ + 1]
              ELSE [svc EXCEPT !.pc = "awaiting", !.sdkCalls = @ + 1]
    /\ UNCHANGED <<doc, selFrom, selTo, apiKey, files, folders, clipboard, inv>>

\* the transport call ends; generateNote parses the text it returned
TransportEnds ==
    /\ svc.kind = "generate" /\ svc.pc = "awaiting"
    /\ LET responseText == IF svc.customCalls > 0
                           THEN GenerateWithCustomHost(svc.outcome, <<"a", "x">>)
                           ELSE GenerateWithSdk(svc.outcome, <<"a", "x">>)
       IN  svc' = IF responseText.threw
                  THEN [svc EXCEPT !.pc = "done", !.threw = TRUE]
                  ELSE [svc EXCEPT !.pc = "done",
                                   !.parsedRaw = responseText.text,
                                   !.response = ParseResponse(responseText.text,
                                                              svc.expectJson)]
    /\ UNCHANGED <<doc, selFrom, selTo, apiKey, files, folders, clipboard, inv>>

\* parseResponse(rawResponse, expectJson)
Parse ==
    /\ svc.kind = "parse" /\ svc.pc = "called"
    /\ svc' = [svc EXCEPT !.pc = "done",
                          !.response = ParseResponse(svc.rawResponse, svc.expectJson)]
    /\ UNCHANGED <<doc, selFrom, selTo, apiKey, files, folders, clipboard, inv>>

\* generateNote builds the prompt of each of the requests
BuildPrompts ==
    /\ svc.kind = "prompt" /\ svc.pc = "called"
    /\ svc' = [svc EXCEPT !.pc = "done",
                          !.prompt = FullPrompt(svc.request),
                          !.otherPrompt = FullPrompt(svc.other),
                          !.aroundPrompt = FullPrompt(svc.around)]
    /\ UNCHANGED <<doc, selFrom, selTo, apiKey, files, folders, clipboard, inv>>

\* the submit callback's loop over result.backgroundFiles: the pending read
\* settles and its entry is appended; after the last file the callback goes on
ReadBackgroundFile ==
    /\ svc.kind = "background" /\ svc.pc = "called"
    /\ IF svc.nRead = Len(svc.backgroundFiles)
       THEN svc' = [svc EXCEPT !.pc = "done"]
       ELSE LET file == svc.backgroundFiles[svc.nRead + 1]
            IN  svc' = [svc EXCEPT
                          !.nRead = @ + 1,
                          !.backgroundContext =
                              AppendReference(@, file, svc.reads[file])]
    /\ UNCHANGED <<doc, selFrom, selTo, apiKey, files, folders, clipboard, inv>>

ServiceNext ==
    CallTransport \/ TransportEnds \/ Parse \/ BuildPrompts \/ ReadBackgroundFile

ServiceSpec == ServiceInit /\ [][ServiceNext]_vars

----------------------------------------------------------------------------
(* The claims *)

InPlace(i) == inv[i].outputAction \in {"replace_selection", "insert_after"}

Ended(i) == inv[i].pc = "ended"

\* C1: when the response meets a selection that differs from the anchor and
\* the anchor occurs zero times or at least twice in the document, the
\* invocation calls neither editor.setSelection nor editor.replaceSelection,
\* shows the warning and has written the result to the clipboard when it ends.
C1_AmbiguousDivertsToClipboard ==
    \A i \in Invs :
        (Ended(i) /\ inv[i].reconcile = "ambiguous") =>
            /\ inv[i].nSetSel = 0
            /\ inv[i].nReplace = 0
            /\ "selection_changed" \in inv[i].notices
            /\ inv[i].clipWrites = 1

\* C2: the span RelocSpan computes for an anchor that occurs exactly once
\* selects exactly the anchor: the document text between its two line/column
\* positions is the anchor, in every document a response can meet, and the
\* text selected by the relocating setSelection is the anchor.
C2_RelocSpanSelectsAnchor ==
    \A i \in Invs :
        /\ (inv[i].pc = "awaiting" /\ Occurrences(doc, inv[i].selectedText) = 1) =>
              LET a  == inv[i].selectedText
                  sp == RelocSpan(doc, IndexOf(doc, a), Len(a))
              IN  GetRange(doc, sp[1], sp[2], sp[3], sp[4]) = a
        /\ inv[i].nSetSel > 0 => inv[i].relocText = inv[i].selectedText

\* C2's case: a relocation to an anchor that spans a line break
C2_Witness ==
    \E i \in Invs :
        /\ inv[i].nSetSel = 1
        /\ inv[i].relocText = inv[i].selectedText
        /\ \E k \in 1..Len(inv[i].selectedText) : inv[i].selectedText[k] = NL
        /\ Len(inv[i].selectedText) = 2

\* C3: in every output action the selection that the invocation's
\* editor.replaceSelection overwrites has the anchor as its text (no user
\* action comes between the reconcile read and the write).
C3_WriteOverwritesAnchor ==
    \A i \in Invs : inv[i].nReplace > 0 => inv[i].wSel = inv[i].selectedText

\* C4: when the response meets a selection that differs from the anchor and
\* the anchor occurs exactly once, the invocation moves the selection to that
\* occurrence and its write replaces that occurrence and nothing else.
C4_RelocatedWriteReplacesAnchor ==
    \A i \in Invs :
        inv[i].reconcile = "unique" =>
            /\ inv[i].nSetSel = 1
            /\ inv[i].relocText = inv[i].selectedText
            /\ inv[i].nReplace > 0 => inv[i].wSel = inv[i].selectedText

C6_AnchorFixedAtCapture ==
    \A i \in Invs :
        inv[i].captured # NoText =>
            /\ inv[i].selectedText = inv[i].captured
            /\ inv[i].snapshotText \in {NoText, inv[i].captured}
            /\ inv[i].relocText \in {NoText, inv[i].captured}
            /\ (inv[i].outputAction = "insert_after" /\ inv[i].nReplace > 0) =>
                  inv[i].wText =
                      inv[i].captured \o <<"\n", "\n">> \o inv[i].response.content

\* C6's case: the user changed the selection after the capture and the
\* insert_after text was written at the relocated anchor
C6_Witness ==
    \E i \in Invs :
        /\ Ended(i)
        /\ inv[i].outputAction = "insert_after"
        /\ inv[i].reconcile = "unique"
        /\ inv[i].nReplace = 1
        /\ inv[i].selectedText = inv[i].captured

\* C7: an invocation calls editor.replaceSelection at most once, and never on
\* the diversion, collision and failure paths.
C7_AtMostOneWrite ==
    \A i \in Invs :
        /\ inv[i].nReplace <= 1
        /\ (\/ inv[i].route = "divert"
            \/ inv[i].existed
            \/ "failed" \in inv[i].notices) => inv[i].nReplace = 0

\* C7's case: the collision path after a successful reconciliation
C7_Witness ==
    \E i \in Invs :
        /\ Ended(i)
        /\ inv[i].route = "safe"
        /\ inv[i].existed
        /\ "already_exists" \in inv[i].notices

\* C8: when reconciliation succeeds in an in-place mode, the step that
\* handles the response turns the document into the document before it with
\* the target span (the selection if its text is the anchor, else the
\* anchor's only occurrence) replaced, in one edit, by response.content for
\* replace_selection and by anchor + "\n\n" + response.content for
\* insert_after.
C8_InPlaceEdit ==
    [][\A i \in Invs :
          (/\ inv[i].pc = "awaiting"
           /\ inv'[i].pc = "ended"
           /\ inv'[i].route = "safe"
           /\ inv'[i].outputAction \in {"replace_selection", "insert_after"}) =>
              LET a    == inv[i].selectedText
                  f    == IF GetSelection(doc, selFrom, selTo) = a
                          THEN selFrom ELSE IndexOf(doc, a)
                  c    == inv'[i].response.content
                  text == IF inv'[i].outputAction = "replace_selection"
                          THEN c ELSE a \o <<"\n", "\n">> \o c
              IN  /\ Substr(doc, f, f + Len(a)) = a
                  /\ doc' = Substr(doc, 0, f) \o text \o Substr(doc, f + Len(a), Len(doc))
                  /\ inv'[i].nReplace = 1
      ]_vars

\* C8's case: insert_after written at the relocated anchor
C8_Witness ==
    \E i \in Invs :
        /\ Ended(i)
        /\ inv[i].outputAction = "insert_after"
        /\ inv[i].reconcile = "unique"
        /\ inv[i].nReplace = 1
        /\ inv[i].response.content # <<>>

\* the document at path p lies in folder
InFolder(p, folder) ==
    LET dir == NormalizePath(folder)
    IN  IF dir = <<>>
        THEN \A k \in 1..Len(p) : p[k] # "/"
        ELSE Len(p) > Len(dir) + 1 /\ SubSeq(p, 1, Len(dir) + 1) = dir \o <<"/">>

LinkTargetsOf(p) ==
    LET noExt == IF p[Len(p)] = ".md" THEN SubSeq(p, 1, Len(p) - 1) ELSE p
        slashes == {k \in 1..Len(noExt) : noExt[k] = "/"}
        base == IF slashes = {} THEN noExt
                ELSE SubSeq(noExt, (CHOOSE k \in slashes : \A j \in slashes : j <= k) + 1,
                            Len(noExt))
    IN  {p, noExt, base}

\* C10: when reconciliation fails in create_note mode and the document was
\* created, the link copied to the clipboard references that document: its
\* target resolves to the created file's path.
C10_ClipboardLinkTargetsCreatedFile ==
    \A i \in Invs :
        (/\ Ended(i)
         /\ inv[i].route = "divert"
         /\ inv[i].outputAction = "create_note"
         /\ inv[i].created # NoText) =>
            \E t \in LinkTargetsOf(inv[i].created) :
                \E label \in {inv[i].response.anchorLabel, inv[i].selectedText} :
                    clipboard = LinkText(t, label)

C12_TransportFailureChangesNothing ==
    [][\A i \in DOMAIN inv :
          (/\ inv[i].pc = "awaiting"
           /\ inv'[i].outcome \in {"network_error", "http_error", "empty"}) =>
              /\ inv'[i].pc = "ended"
              /\ "failed" \in inv'[i].notices
              /\ ~inv'[i].progress
              /\ doc' = doc
              /\ selFrom' = selFrom /\ selTo' = selTo
              /\ files' = files /\ folders' = folders
              /\ clipboard' = clipboard
      ]_vars

\* the invocation has touched neither the editor, the vault nor the clipboard
Untouched(i) ==
    /\ inv[i].nSetSel = 0
    /\ inv[i].nReplace = 0
    /\ inv[i].clipWrites = 0
    /\ inv[i].created = NoText
    /\ inv[i].targetFolder = NoText

\* C13: a precondition failure makes no transport call and no document
\* change: with an empty selection the command shows its notice, opens no
\* modal and starts no generation; with an empty API key runGeneration shows
\* its notice and returns before any GeminiService call; the modal opens only
\* on a non-empty selection and the service is called only with a key set.
C13_PreconditionFailureSendsNothing ==
    \A i \in DOMAIN inv :
        /\ "no_selection" \in inv[i].notices =>
              /\ Ended(i) /\ ~inv[i].opened /\ inv[i].captured = NoText
              /\ inv[i].serviceCalls = 0 /\ inv[i].attempts = 0
              /\ inv[i].outcome = "none" /\ ~inv[i].progress
              /\ Untouched(i)
        /\ "no_key" \in inv[i].notices =>
              /\ Ended(i) /\ apiKey = <<>>
              /\ inv[i].serviceCalls = 0 /\ inv[i].attempts = 0
              /\ inv[i].outcome = "none" /\ ~inv[i].progress
              /\ Untouched(i)
        /\ inv[i].opened => inv[i].captured # <<>> /\ inv[i].captured # NoText
        /\ inv[i].serviceCalls > 0 => apiKey # <<>> /\ inv[i].opened
        /\ inv[i].attempts > 0 => inv[i].serviceCalls > 0
        /\ (Ended(i) /\ apiKey = <<>>) =>
              inv[i].notices \in {{"no_selection"}, {"no_key"}}

\* C13's case: the modal was submitted with no API key set
C13_Witness ==
    \E i \in DOMAIN inv :
        /\ Ended(i)
        /\ inv[i].opened
        /\ inv[i].outputAction = "replace_selection"
        /\ "no_key" \in inv[i].notices
        /\ inv[i].attempts = 0

\* C14: the transport fails on an answer without text on both paths:
\* generateNote throws and parseResponse is never called with an empty text.
C14_EmptyResponseRaises ==
    (svc.kind = "generate" /\ svc.pc = "done") =>
        /\ svc.outcome = "empty" => svc.threw /\ svc.parsedRaw = NoText
        /\ svc.parsedRaw # <<>>

\* C15: every generateNote call makes exactly one transport attempt on exactly
\* one path, the custom-host path exactly when apiHost is non-empty after
\* trimming; the other path is not called, also after a failure.
C15_OneAttemptOnOnePath ==
    svc.kind = "generate" =>
        /\ svc.sdkCalls + svc.customCalls <= 1
        /\ svc.pc \in {"awaiting", "done"} =>
              /\ svc.sdkCalls + svc.customCalls = 1
              /\ svc.customCalls = 1 <=> Trim(svc.apiHost) # <<>>

\* C15's case: a blank host: the managed path was called once, failed, and
\* the custom-host path was not tried
C15_Witness ==
    /\ svc.kind = "generate"
    /\ svc.pc = "done"
    /\ svc.threw
    /\ svc.apiHost = <<" ">>
    /\ svc.sdkCalls = 1
    /\ svc.customCalls = 0

ParsedAs(expectJson) == svc.kind = "parse" /\ svc.pc = "done" /\ svc.expectJson = expectJson

HasBrace(text) == \E k \in 1..Len(text) : text[k] \in {"{", "}"}

\* C16: parseResponse(raw, true) returns a response for every raw text;
\* isFallback is true exactly when neither the fence-stripped parse nor the
\* parse of the text from the first "{" to the last "}" yields a valid
\* candidate (so for every text without a brace); the fallback's content is
\* raw unchanged and its title the non-empty placeholder.
C16_FallbackKeepsRaw ==
    ParsedAs(TRUE) =>
        LET raw == svc.rawResponse
            r   == svc.response
        IN  /\ r.isFallback <=> ~(DirectParse(raw).valid \/ BraceParse(raw).valid)
            /\ ~HasBrace(raw) => r.isFallback
            /\ r.isFallback =>
                  /\ r.content = raw
                  /\ r.title = FallbackTitle
                  /\ r.title # <<>>
                  /\ r.anchorLabel = NoText

\* C16's case: an unparseable text with braces and white space at both ends
C16_Witness ==
    /\ ParsedAs(TRUE)
    /\ svc.response.isFallback
    /\ Len(svc.rawResponse) >= 3
    /\ svc.rawResponse[1] \in WhiteSpace
    /\ svc.rawResponse[Len(svc.rawResponse)] \in WhiteSpace
    /\ HasBrace(svc.rawResponse)
    /\ svc.response.content = svc.rawResponse

\* C17: every response parseResponse(raw, true) returns with isFallback =
\* false has a title and a content of type string that are not empty.
C17_ParsedFieldsNonEmpty ==
    (ParsedAs(TRUE) /\ ~svc.response.isFallback) =>
        /\ IsString(svc.response.title) /\ svc.response.title # <<>>
        /\ IsString(svc.response.content) /\ svc.response.content # <<>>

HasEnclosingFence(text) ==
    Len(text) >= 2 /\ text[1] = Fence /\ text[Len(text)] = Fence

\* C18: parseResponse(raw, false) returns isFallback = false, an empty title
\* and raw with at most one enclosing code fence removed: a part of the text
\* between the fences when raw is enclosed in fences, and raw itself, white
\* space at its ends included, when it is not.
C18_InPlaceContentVerbatim ==
    ParsedAs(FALSE) =>
        LET raw == svc.rawResponse
            r   == svc.response
        IN  /\ ~r.isFallback
            /\ r.title = <<>>
            /\ IF HasEnclosingFence(raw)
               THEN \E a \in 2..Len(raw), b \in 1..(Len(raw) - 1) :
                       r.content = SubSeq(raw, a, b)
               ELSE r.content = raw

\* the fields of the object with text o
ObjectOf(o) ==
    LET ms == SubSeq(o, 2, Len(o) - 1)
    IN  [title |-> Field(ms, "title"), content |-> Field(ms, "content"),
         anchorLabel |-> Field(ms, "anchorLabel")]

\* C19: for every object with a title and a content of type string,
\* parseResponse(raw, true) returns exactly the object's title, content and
\* anchorLabel (absent when the object has none) with isFallback = false,
\* whether raw is the bare object, the object in white space, in one code
\* fence tagged json or untagged, or between commentary without braces.
C19_ValidObjectParsedExactly ==
    (/\ ParsedAs(TRUE)
     /\ svc.object # NoText
     /\ IsString(ObjectOf(svc.object).title)
     /\ IsString(ObjectOf(svc.object).content)) =>
        svc.response = [title |-> ObjectOf(svc.object).title,
                        content |-> ObjectOf(svc.object).content,
                        anchorLabel |-> ObjectOf(svc.object).anchorLabel,
                        isFallback |-> FALSE]

\* C19's case: an object with a label between commentary
C19_Witness ==
    /\ ParsedAs(TRUE)
    /\ svc.object = <<"{", "title:T", "content:ax", "label:L", "}">>
    /\ svc.rawResponse = <<"x", " ">> \o svc.object \o <<" ", "x">>
    /\ svc.response.anchorLabel = <<"L">>
    /\ ~svc.response.isFallback

\* C20: two requests with contextType = selection_only that differ only in
\* parentNoteContent and parentNoteTitle get the same prompt, in create_note
\* mode and in the in-place modes.
C20_ParentNoteNotDisclosed ==
    (/\ svc.kind = "prompt"
     /\ svc.pc = "done"
     /\ svc.request.contextType = "selection_only") =>
        svc.prompt = svc.otherPrompt

\* the entries of the files of fs that were read with a content that is not
\* empty, in the order of fs
RECURSIVE EntriesOfReadable(_, _)
EntriesOfReadable(fs, reads) ==
    IF fs = <<>> THEN <<>>
    ELSE (IF reads[Head(fs)] \in {NoText, <<>>} THEN <<>>
          ELSE ReferenceEntry(Head(fs), reads[Head(fs)]))
         \o EntriesOfReadable(Tail(fs), reads)

\* C21: for every sequence of selected reference files and every pattern of
\* read failures, the aggregated text holds one labelled entry for each file
\* read with non-empty content, in the selected order, and no entry for a
\* file whose read failed or whose content is empty; a failure never aborts
\* the callback.
C21_BestEffortAggregation ==
    svc.kind = "background" =>
        /\ ~svc.threw
        /\ svc.backgroundContext =
              EntriesOfReadable(SubSeq(svc.backgroundFiles, 1, svc.nRead), svc.reads)

\* C22: every create_note invocation whose model output is unparseable gets
\* isFallback = true and, when the reconciliation succeeded and the vault
\* rejected nothing, has its document created under the placeholder title in
\* the target folder and a link to it written over the selection: the first
\* such invocation and every later one.
C22_FallbackNoteAlwaysCreated ==
    /\ \A raw \in ModelOutputs("create_note") :
          ~HasBrace(raw) => ParseResponse(raw, TRUE).isFallback
    /\ \A i \in DOMAIN inv :
          (/\ Ended(i)
           /\ inv[i].outputAction = "create_note"
           /\ inv[i].response.isFallback
           /\ inv[i].route = "safe"
           /\ ~inv[i].threw) =>
              LET p == TargetPath(TargetFolder(inv[i].saveLocation), FallbackTitle)
              IN  /\ inv[i].created = p
                  /\ p \in DOMAIN files
                  /\ files[p] = ParentLink \o inv[i].response.content
                  /\ inv[i].nReplace = 1
                  /\ inv[i].wText = LinkText(p, inv[i].selectedText)

\* the label the link gets: response.anchorLabel when it is not empty, the
\* anchor text otherwise
LabelOrAnchor(response, anchor) ==
    IF response.anchorLabel \notin {NoText, <<>>} THEN response.anchorLabel ELSE anchor

\* C23: the link written over the selection on the safe path of create_note
\* has the created document's path as its target and, as its label,
\* response.anchorLabel when that is not empty and the anchor text otherwise;
\* the link copied to the clipboard on the diversion path gets its label by
\* the same rule.
C23_LinkLabelRule ==
    \A i \in Invs :
        inv[i].outputAction = "create_note" =>
            /\ inv[i].nReplace = 1 =>
                  /\ inv[i].created # NoText
                  /\ inv[i].wText =
                        LinkText(inv[i].created,
                                 LabelOrAnchor(inv[i].response, inv[i].selectedText))
            /\ inv[i].clipWrites = 1 =>
                  clipboard = LinkText(inv[i].response.title,
                                       LabelOrAnchor(inv[i].response, inv[i].selectedText))

\* C24: when the reconciliation fails in an in-place mode, the step that
\* handles the response writes exactly response.content to the clipboard
\* (without the anchor prefix, also for insert_after), shows the warning and
\* ends the invocation: it edits no text, moves no selection, touches no
\* document or folder and shows no other notice, and the ended invocation
\* takes no further step.
C24_InPlaceDiversion ==
    [][\A i \in DOMAIN inv :
          /\ (/\ inv[i].pc = "awaiting"
              /\ inv'[i].route = "divert"
              /\ inv'[i].outputAction \in {"replace_selection", "insert_after"}) =>
                 /\ clipboard' = inv'[i].response.content
                 /\ inv'[i].clipWrites = 1
                 /\ inv'[i].notices = {"selection_changed"}
                 /\ inv'[i].pc = "ended"
                 /\ inv'[i].nReplace = 0 /\ inv'[i].nSetSel = 0
                 /\ doc' = doc /\ selFrom' = selFrom /\ selTo' = selTo
                 /\ files' = files /\ folders' = folders
          /\ inv[i].pc = "ended" => inv'[i] = inv[i]
      ]_vars

\* C24's case: a diverted insert_after: the clipboard holds the content and
\* not the anchor
C24_Witness ==
    \E i \in Invs :
        /\ Ended(i)
        /\ inv[i].outputAction = "insert_after"
        /\ inv[i].route = "divert"
        /\ inv[i].reconcile = "ambiguous"
        /\ inv[i].response.content # <<>>
        /\ clipboard = inv[i].response.content
        /\ clipboard # inv[i].selectedText \o <<"\n", "\n">> \o inv[i].response.content

\* the terminal outcomes of an invocation
Applied(i) == inv[i].nReplace = 1

Diverted(i) == inv[i].clipWrites = 1

Failed(i) ==
    /\ inv[i].nReplace = 0 /\ inv[i].clipWrites = 0
    /\ inv[i].notices \cap {"failed", "already_exists"} # {}

\* C25: every invocation that passed the preconditions (its call is in
\* flight) eventually ends, and an invocation that has ended after its call
\* is in exactly one terminal outcome: applied to the document, diverted to
\* the clipboard, or failed with a notice; the progress notice is hidden in
\* every one of them, and it is shown only while the call is in flight.
C25_EndsInOneOutcome ==
    /\ \A i \in Invs : inv[i].pc = "awaiting" ~> Ended(i)
    /\ [](\A i \in Invs :
            /\ inv[i].progress <=> inv[i].pc = "awaiting"
            /\ (Ended(i) /\ inv[i].attempts > 0) =>
                  /\ ~inv[i].progress
                  /\ Cardinality({o \in {"applied", "diverted", "failed"} :
                         \/ o = "applied" /\ Applied(i)
                         \/ o = "diverted" /\ Diverted(i)
                         \/ o = "failed" /\ Failed(i)}) = 1)

\* C25's case: the diversion path of create_note ended in the catch block:
\* vault.create rejected after the warning
C25_Witness ==
    \E i \in Invs :
        /\ Ended(i)
        /\ inv[i].route = "divert"
        /\ inv[i].threw
        /\ "failed" \in inv[i].notices
        /\ ~inv[i].progress

\* C26: an invocation in an in-place mode never touches the vault: its steps
\* create and change no document and no folder, it never computes a target
\* folder or path, never reaches the collision check and never awaits a
\* vault call, whatever documents the vault holds.
C26_InPlaceLeavesVault ==
    [][\A i \in DOMAIN inv :
          inv'[i].outputAction \in {"replace_selection", "insert_after"} =>
              /\ files' = files
              /\ folders' = folders
              /\ inv'[i].targetFolder = NoText
              /\ inv'[i].targetPath = NoText
              /\ inv'[i].created = NoText
              /\ ~inv'[i].existed
              /\ ~inv'[i].threw
              /\ "already_exists" \notin inv'[i].notices
              /\ inv'[i].pc \notin {"createFolder", "create"}
      ]_vars

\* C26's case: an in-place invocation that met a changed selection and was
\* applied or diverted, in a vault that holds documents and a folder
C26_Witness ==
    \E i \in Invs :
        /\ Ended(i)
        /\ InPlace(i)
        /\ inv[i].nReplace = 1 \/ inv[i].clipWrites = 1
        /\ inv[i].reconcile = "unique" \/ inv[i].reconcile = "ambiguous"
        /\ DOMAIN files # {}
        /\ folders # {}
        /\ \A p \in DOMAIN files : files[p] = OldContent

\* C27: in the in-place modes the reconcile read, the relocation and the
\* write are one step: the step that takes an in-place invocation out of the
\* awaited call ends it, no step of the user or of another invocation comes
\* in between, and the text that editor.replaceSelection replaces is the
\* invocation's anchor, also when another invocation changed the document
\* while the call was in flight.
C27_InPlaceWriteIsAtomic ==
    [][\A i \in DOMAIN inv :
          inv'[i].outputAction \in {"replace_selection", "insert_after"} =>
              /\ inv[i].pc = "awaiting" => inv'[i].pc \in {"awaiting", "ended"}
              /\ inv'[i].nReplace > inv[i].nReplace =>
                    /\ inv[i].pc = "awaiting" /\ inv'[i].pc = "ended"
                    /\ inv'[i].wSel = inv'[i].selectedText
                    /\ \E f \in 0..Len(doc) :
                          /\ OccursAt(doc, inv'[i].selectedText, f)
                          /\ doc' = ReplaceRange(doc, f, f + Len(inv'[i].selectedText),
                                                  inv'[i].wText)
              /\ inv'[i].nReplace > 0 => inv'[i].wSel = inv'[i].selectedText
      ]_vars

\* C27's case: two overlapping in-place invocations, both applied: the
\* second one found the document changed by the first and relocated
C27_Witness ==
    \E i, j \in DOMAIN inv :
        /\ i # j
        /\ InPlace(i) /\ InPlace(j)
        /\ Ended(i) /\ Ended(j)
        /\ inv[i].nReplace = 1 /\ inv[j].nReplace = 1
        /\ inv[i].reconcile = "equal"
        /\ inv[j].reconcile = "unique"
        /\ inv[j].wSel = inv[j].selectedText

\* t occurs in d
Contains(d, t) == \E k \in 0..Len(d) : OccursAt(d, t, k)

\* C28: when an invocation whose transport call returned a text has ended,
\* response.content is in the live document, in a document this invocation
\* created, or on the clipboard: for every output action, reconciliation
\* outcome and vault state.
C28_ContentPreserved ==
    \A i \in Invs :
        (Ended(i) /\ inv[i].outcome = "text") =>
            \/ inv[i].nReplace = 1 /\ Contains(doc, inv[i].response.content)
            \/ /\ inv[i].created # NoText
               /\ inv[i].created \in DOMAIN files
               /\ Contains(files[inv[i].created], inv[i].response.content)
            \/ inv[i].clipWrites = 1 /\ clipboard = inv[i].response.content

\* C29: the context windows of a request belong to its anchor: in the
\* request as built, contextBefore is the document text that ends where an
\* occurrence of request.selectedText begins and contextAfter the text that
\* starts where that occurrence ends, also when the user moved the selection
\* between the command and the submit callback.
C29_ContextBelongsToAnchor ==
    [][(svc.pc = "none" /\ svc'.pc = "built") =>
          \E k \in 0..Len(doc) :
              /\ OccursAt(doc, svc'.request.selectedText, k)
              /\ svc'.request.contextBefore = ContextBefore(doc, k)
              /\ svc'.request.contextAfter =
                    ContextAfter(doc, k + Len(svc'.request.selectedText))
      ]_vars

\* C30: with contextType = selection_only the prompt holds no text of the
\* source document but the selected text: two requests that differ only in
\* the text around the selection (the parent note's content and the windows
\* before and after the selection) get the same prompt, in create_note mode
\* and in the in-place modes.
C30_SelectionOnlySendsSelection ==
    (/\ svc.kind = "prompt"
     /\ svc.pc = "done"
     /\ svc.request.contextType = "selection_only") =>
        svc.prompt = svc.aroundPrompt

============================================================================
